---- MODULE Spec2Model ----
(***************************************************************************)
(* The `changefile <pr-number>` command of tools/monorepo-utils            *)
(* (src/changefile/index.ts): one run of the command is a straight-line    *)
(* sequence of external calls (hosting API, git, rm, pnpm).  Each call is  *)
(* one step; a call that can throw has a succeeding and a throwing         *)
(* outcome.  A throw outside the try block rejects the action's promise    *)
(* and ends the process with a non-zero exit code; a throw inside the try  *)
(* block (lines 105-162) is logged and control continues at line 164.      *)
(*                                                                         *)
(* The command is run up to MaxRuns times in succession for the same pull  *)
(* request; the PR branch on the remote persists between the runs.         *)
(***************************************************************************)
EXTENDS Integers, Sequences, FiniteSets, TLC

\* ------------------------------------------------------------------ bounds
NumProjects == 2
MaxRuns == 2

Projects == 1..NumProjects

\* Content of <project>/changelog/<fileName>: absent, a fragment whose content
\* differs from what this PR's directive generates, or the fragment that the
\* changelog command writes for (fileName, significance, type, message, comment).
Content == {"none", "stale", "gen"}

OrigIdentity == [email |-> "orig", name |-> "orig"]

VARIABLES
    \* ---- inputs of the command, the same for every run of the PR
    automate,       \* result of shouldAutomateChangelog( prBody )
    detailsOk,      \* FALSE: getChangelogDetails( prBody ) throws
    devRepoPath,    \* TRUE: options.devRepoPath was supplied
    githubCI,       \* result of isGithubCI()
    touchedResult,  \* what getTouchedProjectsRequiringChangelog resolves to
    \* ---- control state of the current run
    run,            \* number of the current run
    pc,             \* position in the action
    exitCode,       \* -1 while running
    exitPath,       \* which way the run ended
    fatalErr,       \* the step whose error rejected the action, or "none"
    caughtErr,      \* the step whose error the catch block logged, or "none"
    trace,          \* calls made so far in this run, in order
    touched,        \* touchedProjectsRequiringChangelog
    allProjectPaths,\* allProjectPaths
    idx,            \* position of the removal forEach
    gidx,           \* position of the generation forEach
    genFailed,      \* projects whose changelog command failed
    removed,        \* projects whose fragment the removal loop deleted
    noticeList,     \* the list printed by 'Changelogs created for ...'
    shortStatus,    \* "unknown", "empty" or "dirty"
    \* ---- repositories and configuration
    wt,             \* fragment per project in the working copy
    head,           \* fragment per project in the working copy's HEAD commit
    otherDirty,     \* working copy has uncommitted changes other than fragments
    staged,         \* git add . has staged the working copy
    remote,         \* fragment per project on the PR branch of the working copy's origin
    globalCfg,      \* user-wide git identity
    localCfg,       \* git identity in the clone's own configuration
    tmpRepoPath,    \* "none", "dev" (devRepoPath) or "clone" (the temporary clone)
    origin,         \* repository behind the working copy's origin: "head" or "other"
    workedOn,       \* paths the calls of this run were given as working copy
    commitMsg,      \* message of the commit made by this run, "none" without one
    pushTarget,     \* repository and branch of this run's git push
    history         \* <<summary of the previous run>>, <<>> in the first run

inputs == <<automate, detailsOk, devRepoPath, githubCI, touchedResult>>
ctl    == <<run, pc, exitCode, exitPath, fatalErr, caughtErr, trace>>
loops  == <<touched, allProjectPaths, idx, gidx, genFailed, removed, noticeList, shortStatus>>
repo   == <<wt, head, otherDirty, staged, remote>>
cfg    == <<globalCfg, localCfg>>
wc     == <<tmpRepoPath, origin, workedOn, commitMsg, pushTarget>>
vars   == <<inputs, ctl, loops, repo, cfg, wc, history>>

\* ----------------------------------------------------------------- helpers
Ev(op, p) == [op |-> op, p |-> p]

Ops(t) == {t[i].op : i \in 1..Len(t)}

Count(t, op) == Cardinality({i \in 1..Len(t) : t[i].op = op})

\* position of the first call of op in t, Len(t) + 1 when there is none
First(t, op) ==
    IF op \in Ops(t)
    THEN CHOOSE i \in 1..Len(t) : t[i].op = op /\ \A j \in 1..(i - 1) : t[j].op # op
    ELSE Len(t) + 1

Range(s) == {s[i] : i \in 1..Len(s)}

\* sequences over S without repetition
SeqsNoDup(S) ==
    {s \in UNION {[1..n -> S] : n \in 0..Cardinality(S)} :
        \A i, j \in 1..Len(s) : i # j => s[i] # s[j]}

\* git status --short: non-empty iff the working copy differs from HEAD
Dirty(w, h, o) == o \/ \E p \in Projects : w[p] # h[p]

\* ------------------------------------------------------------ ways to end
\* process.exit( 0 ), or the action's promise resolving
Exit0(path) ==
    /\ pc' = "done"
    /\ exitCode' = 0
    /\ exitPath' = path
    /\ UNCHANGED <<fatalErr, caughtErr>>

\* a throw outside the try block: unhandled rejection, non-zero exit
Abort(step) ==
    /\ pc' = "done"
    /\ exitCode' = 1
    /\ exitPath' = "error"
    /\ fatalErr' = step
    /\ UNCHANGED caughtErr

\* a throw inside the try block: catch ( e ) { Logger.error( e ) }
Caught(step) ==
    /\ pc' = "notice"
    /\ caughtErr' = step
    /\ UNCHANGED <<exitCode, exitPath, fatalErr>>

Goto(next) ==
    /\ pc' = next
    /\ UNCHANGED <<exitCode, exitPath, fatalErr, caughtErr>>

Call(op, p) == trace' = Append(trace, Ev(op, p))

\* line 201: the commit message
CommitMessage == "Adding changelog from automation."

NoPush == [repo |-> "none", branch |-> "none"]

\* cwd: tmpRepoPath (lines 125, 142, 158), baseDir: tmpRepoPath (line 171) and
\* the tmpRepoPath argument of lines 89, 97 and 106
InWorkingCopy == workedOn' = workedOn \cup {tmpRepoPath}

OnWorkingCopy ==
    /\ InWorkingCopy
    /\ UNCHANGED <<tmpRepoPath, origin, commitMsg, pushTarget>>

\* -------------------------------------------------------------------- Init
Init ==
    /\ automate \in BOOLEAN
    /\ detailsOk \in BOOLEAN
    /\ devRepoPath \in BOOLEAN
    /\ githubCI \in BOOLEAN
    /\ touchedResult \in SeqsNoDup(Projects)
    /\ run = 1
    /\ pc = "start"
    /\ exitCode = -1
    /\ exitPath = "none"
    /\ fatalErr = "none"
    /\ caughtErr = "none"
    /\ trace = <<>>
    /\ touched = <<>>
    /\ allProjectPaths = <<>>
    /\ idx = 1
    /\ gidx = 1
    /\ genFailed = {}
    /\ removed = {}
    /\ noticeList = <<>>
    /\ shortStatus = "unknown"
    /\ remote \in [Projects -> Content]
    /\ wt = remote
    /\ head = remote
    /\ otherDirty \in (IF devRepoPath THEN BOOLEAN ELSE {FALSE})
    /\ staged = FALSE
    /\ globalCfg = OrigIdentity
    /\ localCfg = OrigIdentity
    /\ tmpRepoPath = "none"
    /\ origin \in (IF devRepoPath THEN {"head", "other"} ELSE {"head"})
    /\ workedOn = {}
    /\ commitMsg = "none"
    /\ pushTarget = NoPush
    /\ history = <<>>

\* ----------------------------------------------------------------- actions
\* lines 53-59: getPullRequestData
GetPullRequestData ==
    /\ pc = "start"
    /\ Call("fetch", 0)
    /\ \E ok \in BOOLEAN :
         IF ok THEN Goto("gate") ELSE Abort("fetch")
    /\ UNCHANGED <<inputs, run, loops, repo, cfg, wc, history>>

\* lines 61-67: the automation gate
ShouldAutomateChangelogGateMutantNoExit ==
    /\ pc = "gate"
    /\ Goto("details")
    /\ UNCHANGED <<inputs, run, trace, loops, repo, cfg, wc, history>>

ShouldAutomateChangelogGate ==
    /\ pc = "gate"
    /\ IF ~automate THEN Exit0("noAutomation") ELSE Goto("details")
    /\ UNCHANGED <<inputs, run, trace, loops, repo, cfg, wc, history>>

\* lines 69-70: getChangelogDetails, outside the try block
GetChangelogDetailsMutantSwallow ==
    /\ pc = "details"
    /\ Call("details", 0)
    /\ Goto("clone")
    /\ UNCHANGED <<inputs, run, loops, repo, cfg, wc, history>>

GetChangelogDetails ==
    /\ pc = "details"
    /\ Call("details", 0)
    /\ IF detailsOk THEN Goto("clone") ELSE Abort("details")
    /\ UNCHANGED <<inputs, run, loops, repo, cfg, wc, history>>

\* lines 72-86: devRepoPath ? devRepoPath : cloneAuthenticatedRepo(...)
SelectWorkingCopyMutantAlwaysClone ==
    /\ pc = "clone"
    /\ IF FALSE
       THEN /\ Goto("checkout")
            /\ tmpRepoPath' = "dev"
            /\ UNCHANGED <<trace, repo, origin>>
       ELSE /\ Call("clone", 0)
            /\ \E ok \in BOOLEAN :
                 IF ok
                 THEN /\ Goto("checkout")
                      /\ wt' = remote
                      /\ head' = remote
                      /\ otherDirty' = FALSE
                      /\ staged' = FALSE
                      /\ UNCHANGED remote
                      /\ tmpRepoPath' = "clone"
                      /\ origin' = "head"
                 ELSE /\ Abort("clone")
                      /\ UNCHANGED <<repo, tmpRepoPath, origin>>
    /\ UNCHANGED <<inputs, run, loops, cfg, history>>
    /\ UNCHANGED <<workedOn, commitMsg, pushTarget>>

SelectWorkingCopy ==
    /\ pc = "clone"
    /\ IF devRepoPath
       THEN /\ Goto("checkout")
            /\ tmpRepoPath' = "dev"
            /\ UNCHANGED <<trace, repo, origin>>
       ELSE /\ Call("clone", 0)
            /\ \E ok \in BOOLEAN :
                 IF ok
                 THEN /\ Goto("checkout")
                      /\ wt' = remote
                      /\ head' = remote
                      /\ otherDirty' = FALSE
                      /\ staged' = FALSE
                      /\ UNCHANGED remote
                      /\ tmpRepoPath' = "clone"
                      /\ origin' = "head"
                 ELSE /\ Abort("clone")
                      /\ UNCHANGED <<repo, tmpRepoPath, origin>>
    /\ UNCHANGED <<inputs, run, loops, cfg, history>>
    /\ UNCHANGED <<workedOn, commitMsg, pushTarget>>

\* lines 88-89: checkoutRemoteBranch( tmpRepoPath, branch )
CheckoutRemoteBranch ==
    /\ pc = "checkout"
    /\ Call("checkout", 0)
    /\ \E ok \in BOOLEAN :
         IF ok
         THEN /\ Goto("touched")
              /\ wt' = remote
              /\ head' = remote
              /\ staged' = FALSE
              /\ UNCHANGED <<otherDirty, remote>>
         ELSE /\ Abort("checkout")
              /\ UNCHANGED repo
    /\ UNCHANGED <<inputs, run, loops, cfg, history>>
    /\ OnWorkingCopy

\* lines 91-103: getTouchedProjectsRequiringChangelog, outside the try block
GetTouchedProjectsRequiringChangelog ==
    /\ pc = "touched"
    /\ Call("touched", 0)
    /\ \E ok \in BOOLEAN :
         IF ok
         THEN /\ Goto("allProjects")
              /\ touched' = touchedResult
         ELSE /\ Abort("touched")
              /\ UNCHANGED touched
    /\ UNCHANGED <<inputs, run, allProjectPaths, idx, gidx, genFailed, removed,
                   noticeList, shortStatus, repo, cfg, history>>
    /\ OnWorkingCopy

\* line 106: getAllProjectPaths, first statement of the try block
GetAllProjectPathsMutantOutsideTry ==
    /\ pc = "allProjects"
    /\ Call("allProjects", 0)
    /\ \E ok \in BOOLEAN :
         IF ok
         THEN /\ Goto("remove")
              /\ allProjectPaths' = [i \in 1..NumProjects |-> i]
              /\ idx' = 1
         ELSE /\ Abort("allProjects")
              /\ UNCHANGED <<allProjectPaths, idx>>
    /\ UNCHANGED <<inputs, run, touched, gidx, genFailed, removed,
                   noticeList, shortStatus, repo, cfg, history>>
    /\ OnWorkingCopy

GetAllProjectPaths ==
    /\ pc = "allProjects"
    /\ Call("allProjects", 0)
    /\ \E ok \in BOOLEAN :
         IF ok
         THEN /\ Goto("remove")
              /\ allProjectPaths' = [i \in 1..NumProjects |-> i]
              /\ idx' = 1
         ELSE /\ Caught("allProjects")
              /\ UNCHANGED <<allProjectPaths, idx>>
    /\ UNCHANGED <<inputs, run, touched, gidx, genFailed, removed,
                   noticeList, shortStatus, repo, cfg, history>>
    /\ OnWorkingCopy

\* line 119: existsSync( path ) for <projectPath>/changelog/<fileName>
ExistsSyncMutantTouchedOnly(p) == wt[p] # "none" /\ p \in Range(touched)

ExistsSync(p) == wt[p] # "none"

\* lines 111-129: one iteration of allProjectPaths.forEach
RemoveExistingChangelogFile ==
    /\ pc = "remove"
    /\ idx <= Len(allProjectPaths)
    /\ LET p == allProjectPaths[idx]
           next == IF idx = Len(allProjectPaths) THEN "emptyCheck" ELSE "remove"
       IN IF ExistsSync(p)
          THEN /\ Call("rm", p)
               /\ \E ok \in BOOLEAN :
                    IF ok
                    THEN /\ Goto(next)
                         /\ wt' = [wt EXCEPT ![p] = "none"]
                         /\ removed' = removed \cup {p}
                         /\ idx' = idx + 1
                    ELSE /\ Caught("rm")
                         /\ UNCHANGED <<wt, removed, idx>>
          ELSE /\ Goto(next)
               /\ idx' = idx + 1
               /\ UNCHANGED <<trace, wt, removed>>
    /\ UNCHANGED <<inputs, run, touched, allProjectPaths, gidx, genFailed,
                   noticeList, shortStatus, head, otherDirty, staged, remote,
                   cfg, history>>
    /\ OnWorkingCopy

\* lines 131-134: nothing requires a changelog
NoProjectsCheck ==
    /\ pc = "emptyCheck"
    /\ IF Len(touched) = 0 THEN Exit0("noProjects") ELSE Goto("install")
    /\ UNCHANGED <<inputs, run, trace, loops, repo, cfg, wc, history>>

\* lines 136-145: pnpm install unless devRepoPath was given
InstallDependenciesMutantAlways ==
    /\ pc = "install"
    /\ Call("install", 0)
    /\ \E ok \in BOOLEAN :
         IF ok THEN Goto("generate") ELSE Caught("install")
    /\ gidx' = 1
    /\ UNCHANGED <<inputs, run, touched, allProjectPaths, idx, genFailed, removed,
                   noticeList, shortStatus, repo, cfg, history>>
    /\ OnWorkingCopy

InstallDependencies ==
    /\ pc = "install"
    /\ IF devRepoPath
       THEN /\ Goto("generate")
            /\ UNCHANGED <<trace, wc>>
       ELSE /\ Call("install", 0)
            /\ OnWorkingCopy
            /\ \E ok \in BOOLEAN :
                 IF ok THEN Goto("generate") ELSE Caught("install")
    /\ gidx' = 1
    /\ UNCHANGED <<inputs, run, touched, allProjectPaths, idx, genFailed, removed,
                   noticeList, shortStatus, repo, cfg, history>>

\* the fragment that `changelog add -f fileName -s significance -t type` writes
WriteFragment(w, p) == [w EXCEPT ![p] = "gen"]

\* lines 147-159: one iteration of touchedProjectsRequiringChangelog.forEach;
\* execSync throws out of the forEach callback into the catch block
RunChangelogCommandMutantFirstOnly ==
    /\ pc = "generate"
    /\ gidx <= Len(touched)
    /\ LET p == touched[gidx]
       IN /\ Call("gen", p)
          /\ \E ok \in BOOLEAN :
               IF ok
               THEN /\ Goto("notice")
                    /\ wt' = WriteFragment(wt, p)
                    /\ gidx' = gidx + 1
                    /\ UNCHANGED genFailed
               ELSE /\ Caught("gen")
                    /\ genFailed' = genFailed \cup {p}
                    /\ UNCHANGED <<wt, gidx>>
    /\ UNCHANGED <<inputs, run, touched, allProjectPaths, idx, removed,
                   noticeList, shortStatus, head, otherDirty, staged, remote,
                   cfg, history>>
    /\ OnWorkingCopy

RunChangelogCommand ==
    /\ pc = "generate"
    /\ gidx <= Len(touched)
    /\ LET p == touched[gidx]
       IN /\ Call("gen", p)
          /\ \E ok \in BOOLEAN :
               IF ok
               THEN /\ Goto(IF gidx = Len(touched) THEN "notice" ELSE "generate")
                    /\ wt' = WriteFragment(wt, p)
                    /\ gidx' = gidx + 1
                    /\ UNCHANGED genFailed
               ELSE /\ Caught("gen")
                    /\ genFailed' = genFailed \cup {p}
                    /\ UNCHANGED <<wt, gidx>>
    /\ UNCHANGED <<inputs, run, touched, allProjectPaths, idx, removed,
                   noticeList, shortStatus, head, otherDirty, staged, remote,
                   cfg, history>>
    /\ OnWorkingCopy

\* lines 165-167: touchedProjectsRequiringChangelog.join( ', ' )
NoticeProjectsMutantSucceededOnly ==
    [i \in 1..(IF caughtErr = "gen" THEN gidx - 1
               ELSE IF "gen" \in Ops(trace) THEN Len(touched) ELSE 0) |-> touched[i]]

NoticeProjects == touched

\* lines 164-175: the notice, simpleGit(...), and the isGithubCI() test
ChangelogsCreatedNoticeMutantSkipConfig ==
    /\ pc = "notice"
    /\ Call("notice", 0)
    /\ noticeList' = NoticeProjects
    /\ Goto("status")
    /\ UNCHANGED <<inputs, run, touched, allProjectPaths, idx, gidx,
                   genFailed, removed, shortStatus, repo, cfg, wc, history>>

ChangelogsCreatedNotice ==
    /\ pc = "notice"
    /\ Call("notice", 0)
    /\ noticeList' = NoticeProjects
    /\ Goto(IF githubCI THEN "configEmail" ELSE "status")
    /\ UNCHANGED <<inputs, run, touched, allProjectPaths, idx, gidx,
                   genFailed, removed, shortStatus, repo, cfg, wc, history>>

\* lines 176-181: git config --global user.email
ConfigUserEmail ==
    /\ pc = "configEmail"
    /\ Call("configEmail", 0)
    /\ \E ok \in BOOLEAN :
         IF ok
         THEN /\ Goto("configName")
              /\ globalCfg' = [globalCfg EXCEPT !.email = "bot"]
         ELSE /\ Abort("configEmail")
              /\ UNCHANGED globalCfg
    /\ UNCHANGED <<inputs, run, loops, repo, localCfg, history>>
    /\ OnWorkingCopy

\* lines 182-187: git config --global user.name
ConfigUserName ==
    /\ pc = "configName"
    /\ Call("configName", 0)
    /\ \E ok \in BOOLEAN :
         IF ok
         THEN /\ Goto("status")
              /\ globalCfg' = [globalCfg EXCEPT !.name = "bot"]
         ELSE /\ Abort("configName")
              /\ UNCHANGED globalCfg
    /\ UNCHANGED <<inputs, run, loops, repo, localCfg, history>>
    /\ OnWorkingCopy

\* line 192: shortStatus.length === 0
StatusIsEmptyMutantNever(s) == FALSE

StatusIsEmpty(s) == s = "empty"

\* lines 190-197: git status --short and the short-circuit
GitStatusShort ==
    /\ pc = "status"
    /\ Call("status", 0)
    /\ \E ok \in BOOLEAN :
         IF ok
         THEN /\ shortStatus' = IF Dirty(wt, head, otherDirty) THEN "dirty" ELSE "empty"
              /\ IF StatusIsEmpty(shortStatus')
                 THEN Exit0("cleanStatus")
                 ELSE Goto("add")
         ELSE /\ Abort("status")
              /\ UNCHANGED shortStatus
    /\ UNCHANGED <<inputs, run, touched, allProjectPaths, idx, gidx, genFailed,
                   removed, noticeList, repo, cfg, history>>
    /\ OnWorkingCopy

\* lines 199-200: git add .
GitAddMutantSkipCommit ==
    /\ pc = "add"
    /\ Call("add", 0)
    /\ \E ok \in BOOLEAN :
         IF ok
         THEN /\ Goto("push")
              /\ staged' = TRUE
         ELSE /\ Abort("add")
              /\ UNCHANGED staged
    /\ UNCHANGED <<inputs, run, loops, wt, head, otherDirty, remote, cfg, history>>
    /\ OnWorkingCopy

GitAdd ==
    /\ pc = "add"
    /\ Call("add", 0)
    /\ \E ok \in BOOLEAN :
         IF ok
         THEN /\ Goto("commit")
              /\ staged' = TRUE
         ELSE /\ Abort("add")
              /\ UNCHANGED staged
    /\ UNCHANGED <<inputs, run, loops, wt, head, otherDirty, remote, cfg, history>>
    /\ OnWorkingCopy

\* line 201: git commit 'Adding changelog from automation.'
GitCommit ==
    /\ pc = "commit"
    /\ Call("commit", 0)
    /\ \E ok \in BOOLEAN :
         IF ok
         THEN /\ Goto("push")
              /\ head' = IF staged THEN wt ELSE head
              /\ otherDirty' = IF staged THEN FALSE ELSE otherDirty
              /\ staged' = FALSE
              /\ commitMsg' = CommitMessage
         ELSE /\ Abort("commit")
              /\ UNCHANGED <<head, otherDirty, staged, commitMsg>>
    /\ UNCHANGED <<inputs, run, loops, wt, remote, cfg, history>>
    /\ InWorkingCopy
    /\ UNCHANGED <<tmpRepoPath, origin, pushTarget>>

\* lines 202-203: git push origin <branch>; then the action's promise resolves
GitPushMutantOtherBranch ==
    /\ pc = "push"
    /\ Call("push", 0)
    /\ \E ok \in BOOLEAN :
         IF ok THEN Exit0("pushed") ELSE Abort("push")
    /\ UNCHANGED <<inputs, run, loops, repo, cfg, history>>
    /\ InWorkingCopy
    /\ pushTarget' = [repo |-> origin, branch |-> "prBranch"]
    /\ UNCHANGED <<tmpRepoPath, origin, commitMsg>>

GitPushMutantSwallow ==
    /\ pc = "push"
    /\ Call("push", 0)
    /\ \E ok \in BOOLEAN :
         IF ok
         THEN /\ Exit0("pushed")
              /\ remote' = head
         ELSE /\ pc' = "done"
              /\ exitCode' = 0
              /\ exitPath' = "pushed"
              /\ fatalErr' = "push"
              /\ UNCHANGED caughtErr
              /\ UNCHANGED remote
    /\ UNCHANGED <<inputs, run, loops, wt, head, otherDirty, staged, cfg, history>>
    /\ InWorkingCopy
    /\ pushTarget' = [repo |-> origin, branch |-> "prBranch"]
    /\ UNCHANGED <<tmpRepoPath, origin, commitMsg>>

GitPush ==
    /\ pc = "push"
    /\ Call("push", 0)
    /\ \E ok \in BOOLEAN :
         IF ok
         THEN /\ Exit0("pushed")
              /\ remote' = head
         ELSE /\ Abort("push")
              /\ UNCHANGED remote
    /\ UNCHANGED <<inputs, run, loops, wt, head, otherDirty, staged, cfg, history>>
    /\ InWorkingCopy
    /\ pushTarget' = [repo |-> origin, branch |-> "prBranch"]
    /\ UNCHANGED <<tmpRepoPath, origin, commitMsg>>

\* what is kept of a finished run
Summary ==
    [failed |-> (fatalErr # "none" \/ caughtErr # "none"),
     exitPath |-> exitPath, remote |-> remote]

\* the command is invoked again for the same pull request; without
\* devRepoPath the run will work on a clone of its own, and the clone of the
\* finished run is not used again
NextRun ==
    /\ pc = "done"
    /\ run < MaxRuns
    /\ history' = <<Summary>>
    /\ run' = run + 1
    /\ pc' = "start"
    /\ exitCode' = -1
    /\ exitPath' = "none"
    /\ fatalErr' = "none"
    /\ caughtErr' = "none"
    /\ trace' = <<>>
    /\ touched' = <<>>
    /\ allProjectPaths' = <<>>
    /\ idx' = 1
    /\ gidx' = 1
    /\ genFailed' = {}
    /\ removed' = {}
    /\ noticeList' = <<>>
    /\ shortStatus' = "unknown"
    /\ IF devRepoPath
       THEN UNCHANGED <<wt, head, otherDirty, staged>>
       ELSE /\ wt' = remote
            /\ head' = remote
            /\ otherDirty' = FALSE
            /\ staged' = FALSE
    /\ tmpRepoPath' = "none"
    /\ workedOn' = {}
    /\ commitMsg' = "none"
    /\ pushTarget' = NoPush
    /\ UNCHANGED <<inputs, remote, cfg, origin>>

Next ==
    \/ GetPullRequestData
    \/ ShouldAutomateChangelogGate
    \/ GetChangelogDetails
    \/ SelectWorkingCopy
    \/ CheckoutRemoteBranch
    \/ GetTouchedProjectsRequiringChangelog
    \/ GetAllProjectPaths
    \/ RemoveExistingChangelogFile
    \/ NoProjectsCheck
    \/ InstallDependencies
    \/ RunChangelogCommand
    \/ ChangelogsCreatedNotice
    \/ ConfigUserEmail
    \/ ConfigUserName
    \/ GitStatusShort
    \/ GitAdd
    \/ GitCommit
    \/ GitPush
    \/ NextRun

Spec == Init /\ [][Next]_vars

TypeOK ==
    /\ run \in 1..MaxRuns
    /\ exitCode \in {-1, 0, 1}
    /\ (pc = "done") <=> (exitCode # -1)
    /\ wt \in [Projects -> Content]
    /\ head \in [Projects -> Content]
    /\ remote \in [Projects -> Content]

\* ------------------------------------------------------------------ claims
\* calls that change the working copy, the configuration or the remote
MutatingOps ==
    {"clone", "checkout", "rm", "install", "gen", "configEmail", "configName",
     "add", "commit", "push"}

CommitOps == {"add", "commit", "push"}

Invoked(p) == \E i \in 1..Len(trace) : trace[i] = Ev("gen", p)

\* C1: once one project's changelog command has failed, every project of the
\* touched-requiring sequence still gets its command invoked, and a run that
\* pushes has committed the fragment of every touched project whose command
\* did not fail.
C1_PartialFailureTolerance ==
    /\ (genFailed # {} /\ pc # "generate") =>
           \A i \in 1..Len(touched) : Invoked(touched[i])
    /\ (genFailed # {} /\ exitPath = "pushed") =>
           \A p \in Range(touched) \ genFailed : head[p] = "gen"

\* C2: the user-wide git identity is the same in every state as at the start,
\* and in a CI run the bot identity is in the clone's own configuration when
\* the status is taken.
C2_GlobalConfigUnchanged ==
    /\ globalCfg = OrigIdentity
    /\ (githubCI /\ pc = "status") => localCfg = [email |-> "bot", name |-> "bot"]

\* C3: when the PR body has no checked automation marker, the run ends at the
\* gate with exit code 0 and has made no clone, checkout, removal, install,
\* generation, git config, add, commit or push.
C3_NoAutomationNoEffects ==
    (~automate /\ pc # "start" /\ fatalErr # "fetch") =>
        /\ pc \in {"gate", "done"}
        /\ Ops(trace) \cap MutatingOps = {}
        /\ pc = "done" => (exitCode = 0 /\ exitPath = "noAutomation")

C3_Witness ==
    /\ ~automate
    /\ pc = "done"
    /\ exitCode = 0
    /\ trace = <<Ev("fetch", 0)>>
    /\ \E p \in Projects : remote[p] = "stale"

\* C4: when automation is requested and getChangelogDetails fails, the run
\* ends with a non-zero exit code before any clone, checkout, removal,
\* generation, commit or push; getChangelogDetails is called only when
\* automation is requested.
C4_DirectiveErrorAbortsBeforeClone ==
    /\ (~detailsOk /\ "details" \in Ops(trace)) =>
           /\ pc = "done"
           /\ exitCode # 0
           /\ Ops(trace) \cap MutatingOps = {}
    /\ "details" \in Ops(trace) => automate

C4_Witness ==
    /\ automate
    /\ ~detailsOk
    /\ pc = "done"
    /\ fatalErr = "details"
    /\ trace = <<Ev("fetch", 0), Ev("details", 0)>>

\* C5: an error of the PR metadata fetch, the clone, the checkout,
\* getAllProjectPaths or getTouchedProjectsRequiringChangelog ends the run at
\* once with a non-zero exit code: the failing call is the last call of the run.
DiscoverySteps == {"fetch", "clone", "checkout", "allProjects", "touched"}

C5_DiscoveryErrorsAbort ==
    \A step \in DiscoverySteps :
        (fatalErr = step \/ caughtErr = step) =>
            /\ pc = "done"
            /\ exitCode # 0
            /\ trace[Len(trace)].op = step

\* C6: at the step that invokes the first changelog command, every project
\* returned by getAllProjectPaths whose fragment existed after checkout has
\* had it removed, and no project has a fragment in the working copy.
C6_ReconcileBeforeGenerate ==
    [][("gen" \notin Ops(trace) /\ "gen" \in Ops(trace')) =>
          /\ Range(allProjectPaths) = Projects
          /\ \A p \in Projects :
                /\ head[p] # "none" => (p \in removed /\ Ev("rm", p) \in Range(trace))
                /\ wt[p] = "none"]_vars

C6_Witness ==
    /\ "gen" \in Ops(trace)
    /\ \E p \in removed : p \notin Range(touched) /\ head[p] # "none"

\* C7: when the touched-requiring sequence computed for the run is empty, no
\* install, generation, add, commit or push is made, whatever happened during
\* the removal of existing fragments, and the run ends with exit code 0 (stated
\* here for the runs in which no call outside the try block throws).
C7_EmptyTouchedSetNoOp ==
    ("touched" \in Ops(trace) /\ fatalErr # "touched" /\ touched = <<>>) =>
        /\ Ops(trace) \cap {"install", "gen", "add", "commit", "push"} = {}
        /\ (pc = "done" /\ fatalErr = "none") => exitCode = 0

\* C8: add, commit and push are each called at most once, in that order,
\* commit only after add, push only after commit, and add only directly
\* after a short status that was not empty.
C8_CommitDriverOrder ==
    /\ \A op \in CommitOps : Count(trace, op) <= 1
    /\ "commit" \in Ops(trace) =>
           /\ "add" \in Ops(trace)
           /\ First(trace, "add") < First(trace, "commit")
    /\ "push" \in Ops(trace) =>
           /\ "commit" \in Ops(trace)
           /\ First(trace, "commit") < First(trace, "push")
    /\ "add" \in Ops(trace) =>
           /\ shortStatus = "dirty"
           /\ First(trace, "add") > 1
           /\ trace[First(trace, "add") - 1].op = "status"

C8_Witness ==
    /\ exitPath = "pushed"
    /\ Len(trace) >= 4
    /\ trace[Len(trace) - 3].op = "status"
    /\ trace[Len(trace) - 2].op = "add"
    /\ trace[Len(trace) - 1].op = "commit"
    /\ trace[Len(trace)].op = "push"

\* C9: when the short status taken before staging is empty, the run ends
\* there with exit code 0 and makes no add, commit or push.
C9_CleanShortCircuit ==
    shortStatus = "empty" =>
        /\ pc = "done"
        /\ exitCode = 0
        /\ exitPath = "cleanStatus"
        /\ Ops(trace) \cap CommitOps = {}

C9_Witness ==
    /\ shortStatus = "empty"
    /\ pc = "done"
    /\ "gen" \in Ops(trace)
    /\ removed # {}

\* C10 as stated: a run that follows a run of the same PR, both without any
\* failing step and with a directive, makes no commit and no push, ends on
\* the empty-short-status path with exit code 0 and leaves the PR branch as
\* the previous run left it.
SecondOfTwoCleanRuns ==
    /\ Len(history) = 1
    /\ pc = "done"
    /\ automate
    /\ detailsOk
    /\ ~history[1].failed
    /\ fatalErr = "none"
    /\ caughtErr = "none"

C12_InstallOnceBeforeGeneration ==
    /\ Count(trace, "install") <= 1
    /\ "install" \in Ops(trace) => ~devRepoPath
    /\ "gen" \in Ops(trace) =>
           IF devRepoPath
           THEN "install" \notin Ops(trace)
           ELSE /\ Count(trace, "install") = 1
                /\ First(trace, "install") < First(trace, "gen")

C12_Witness ==
    /\ ~devRepoPath
    /\ Count(trace, "gen") = 2
    /\ Count(trace, "install") = 1
    /\ pc = "done"

\* the projects of the changelog commands called so far, in call order
IsGen(e) == e.op = "gen"

GenProjects ==
    LET g == SelectSeq(trace, IsGen) IN [i \in 1..Len(g) |-> g[i].p]

\* C14: once the 'Changelogs created for' notice is printed, its list is the
\* touched-requiring sequence computed before the removal of fragments, and
\* the changelog commands were called along that list in its order,
\* whichever of them failed or were never called.
C14_NoticeListsTouchedInOrder ==
    "notice" \in Ops(trace) =>
        /\ noticeList = touched
        /\ noticeList = touchedResult
        /\ Len(GenProjects) <= Len(noticeList)
        /\ \A i \in 1..Len(GenProjects) : GenProjects[i] = noticeList[i]

C14_Witness ==
    /\ "notice" \in Ops(trace)
    /\ Len(noticeList) = 2
    /\ genFailed = {noticeList[1]}
    /\ GenProjects = <<noticeList[1]>>

\* C15: when the removal loop deleted a fragment and the run ended with exit
\* code 0, the PR branch on the remote holds for that project what the
\* working copy holds: the deletion, or the regenerated fragment.
C15_StaleRemovalReachesRemote ==
    (pc = "done" /\ exitCode = 0 /\ removed # {}) =>
        \A p \in removed : remote[p] = wt[p]

\* C16: an error of getAllProjectPaths or of an rm is never fatal; after it
\* no further rm, no install and no changelog command is called and the
\* 'No projects' exit is not taken: the next call is the notice, and a run in
\* which no later call throws ends on the short status, pushed when dirty.
ReconcileSteps == {"allProjects", "rm"}

C16_ReconcileErrorCaught ==
    /\ fatalErr \notin ReconcileSteps
    /\ caughtErr \in ReconcileSteps =>
           /\ pc \notin {"remove", "emptyCheck", "install", "generate"}
           /\ exitPath # "noProjects"
           /\ Ops(trace) \cap {"install", "gen"} = {}
           /\ \A i \in 1..Len(trace) :
                  /\ trace[i].op = "notice" => (i > 1 /\ trace[i - 1].op = caughtErr)
                  /\ trace[i].op \in ReconcileSteps => i < First(trace, "notice")
           /\ (pc = "done" /\ fatalErr = "none") =>
                  /\ "status" \in Ops(trace)
                  /\ shortStatus = "empty" => exitPath = "cleanStatus"
                  /\ shortStatus = "dirty" =>
                         (exitPath = "pushed" /\ CommitOps \subseteq Ops(trace))

C16_Witness ==
    /\ caughtErr = "rm"
    /\ removed # {}
    /\ touched # <<>>
    /\ exitPath = "pushed"

\* C18: outside CI no git identity is written; in CI user.email and then
\* user.name are written before the short status is taken, hence before any
\* add or commit, also in a run that ends on an empty status.
ConfigOps == {"configEmail", "configName"}

C18_IdentityConfigGatedAndOrdered ==
    /\ ~githubCI =>
           /\ Ops(trace) \cap ConfigOps = {}
           /\ globalCfg = OrigIdentity
           /\ localCfg = OrigIdentity
    /\ (githubCI /\ "status" \in Ops(trace)) =>
           /\ \A op \in ConfigOps : Count(trace, op) = 1
           /\ First(trace, "configEmail") < First(trace, "configName")
           /\ First(trace, "configName") < First(trace, "status")
           /\ globalCfg = [email |-> "bot", name |-> "bot"]
    /\ \A op \in ConfigOps :
           First(trace, "add") < First(trace, op) => op \notin Ops(trace)

C18_Witness ==
    /\ githubCI
    /\ run = 1
    /\ exitPath = "cleanStatus"
    /\ globalCfg = [email |-> "bot", name |-> "bot"]
    /\ Ops(trace) \cap CommitOps = {}

\* C11 as stated: a run pushes at most once, to the PR's branch of the PR
\* head repository, and a failing push ends the run at once with a non-zero
\* exit code, without another push and without the 'Pushed changes' notice.
PushNotRetried ==
    /\ Count(trace, "push") <= 1
    /\ fatalErr = "push" =>
           /\ pc = "done"
           /\ exitCode # 0
           /\ exitPath # "pushed"
           /\ trace[Len(trace)].op = "push"

C11_PushToHeadRepoNotRetried ==
    /\ PushNotRetried
    /\ "push" \in Ops(trace) => pushTarget = [repo |-> "head", branch |-> "prBranch"]

\* C11 amended: ... the push goes to the PR's branch on the origin of the
\* working copy, which is the PR head repository when the run cloned it.
C11_PushToOriginNotRetried ==
    /\ PushNotRetried
    /\ "push" \in Ops(trace) =>
           /\ pushTarget = [repo |-> origin, branch |-> "prBranch"]
           /\ ~devRepoPath => pushTarget.repo = "head"

C11_Witness ==
    /\ ~devRepoPath
    /\ fatalErr = "push"
    /\ exitCode = 1
    /\ pushTarget = [repo |-> "head", branch |-> "prBranch"]

\* C13: a run with automation requested, a valid directive, a non-empty
\* touched-requiring sequence and no failing step has called the changelog
\* command exactly once per touched project, in order; if its short status
\* was dirty it ended pushed, with one commit carrying the fixed message,
\* pushed to the PR's branch, and the branch holds every touched project's
\* generated fragment.
SuccessfulRun ==
    /\ pc = "done"
    /\ automate
    /\ detailsOk
    /\ touched # <<>>
    /\ fatalErr = "none"
    /\ caughtErr = "none"

C13_EndToEndSuccess ==
    SuccessfulRun =>
        /\ GenProjects = touched
        /\ shortStatus \in {"empty", "dirty"}
        /\ shortStatus = "dirty" =>
               /\ exitPath = "pushed"
               /\ exitCode = 0
               /\ Count(trace, "commit") = 1
               /\ commitMsg = "Adding changelog from automation."
               /\ pushTarget.branch = "prBranch"
               /\ remote = wt
               /\ \A p \in Range(touched) : remote[p] = "gen"

C13_Witness ==
    /\ SuccessfulRun
    /\ Len(touched) = 2
    /\ exitPath = "pushed"
    /\ commitMsg = "Adding changelog from automation."

\* C17: with devRepoPath no clone is made and every call on a working copy
\* is given devRepoPath; without it at most one clone is made, after the gate
\* and a successful getChangelogDetails and before the checkout, exactly one
\* in every run that got past getChangelogDetails, and every call on a
\* working copy is given the cloned path.
WorkingCopyOps ==
    {"checkout", "touched", "allProjects", "rm", "install", "gen",
     "configEmail", "configName", "status", "add", "commit", "push"}

PastDirective ==
    /\ pc \notin {"start", "gate", "details", "clone"}
    /\ pc = "done" => (exitPath # "noAutomation" /\ fatalErr \notin {"fetch", "details"})

C17_WorkingCopySelection ==
    /\ devRepoPath =>
           /\ "clone" \notin Ops(trace)
           /\ workedOn \subseteq {"dev"}
    /\ ~devRepoPath =>
           /\ Count(trace, "clone") <= 1
           /\ workedOn \subseteq {"clone"}
           /\ "clone" \in Ops(trace) =>
                  /\ automate
                  /\ detailsOk
                  /\ First(trace, "details") < First(trace, "clone")
           /\ PastDirective => Count(trace, "clone") = 1
    /\ tmpRepoPath = "clone" => origin = "head"
    /\ Ops(trace) \cap WorkingCopyOps # {} =>
           /\ workedOn # {}
           /\ ~devRepoPath => First(trace, "clone") < First(trace, "checkout")

C17_Witness ==
    /\ ~devRepoPath
    /\ exitPath = "pushed"
    /\ workedOn = {"clone"}
    /\ Count(trace, "clone") = 1
    /\ "gen" \in Ops(trace)
====
